---- MODULE Spec2Model ----
(***************************************************************************)
(* A model of the document retrieval pipeline of                           *)
(* src/document_processor: TextProcessor (clean_text, chunk_text,          *)
(* embed_chunks, process_document) and DocumentStore (add_document,        *)
(* search, save, load, clear), of DocumentStore's calls running on several *)
(* threads, and of the service around them: DocumentProcessor, the         *)
(* document loaders' factory and main.py's upload endpoint.                *)
(*                                                                         *)
(* Texts are sequences of characters (one string per character).  Python   *)
(* offsets are 0-based, TLA+ sequences 1-based: the character at Python    *)
(* offset i of a text t is t[i + 1].                                       *)
(***************************************************************************)
EXTENDS Integers, Sequences, FiniteSets, TLC

VARIABLES
    \* ---- TextProcessor.process_document, one step per loop iteration ----
    pc,             \* "idle" | "clean" | "loop" | "embed" | "done"
    doc_text,       \* process_document's argument text (raw)
    doc_meta,       \* process_document's argument metadata
    text,           \* chunk_text's argument: the cleaned text
    start,          \* chunk_text's local start
    end,            \* chunk_text's local end (of the last window computed)
    chunks,         \* chunk_text's local list chunks
    iter,           \* number of loop iterations executed (model counter)
    \* ---- DocumentStore ----
    index,          \* self.index: the faiss IndexFlatL2 [d, xb]
    metadata_store, \* self.metadata_store: list of chunk dicts
    dimension,      \* self.dimension
    persist_dir,    \* self.persist_dir
    disk,           \* the file system: directory -> its two files
    lastOp,         \* the last DocumentStore call: [op, args]
    ret,            \* what that call returned or raised
    \* ---- calls in progress on other threads ----
    calls,          \* thread -> the add_document or clear call it is running
    srch            \* the search call in progress: its locals

chunkVars == <<pc, doc_text, doc_meta, text, start, end, chunks, iter>>
storeVars == <<index, metadata_store, dimension, persist_dir, disk, lastOp, ret>>
threadVars == <<calls, srch>>
vars == <<pc, doc_text, doc_meta, text, start, end, chunks, iter,
          index, metadata_store, dimension, persist_dir, disk, lastOp, ret,
          calls, srch>>

(***************************************************************************)
(* Program constants.                                                      *)
(***************************************************************************)
chunk_size == 1000
overlap == 200
EmbeddingDimension == 384

(***************************************************************************)
(* Bounds of the model.                                                    *)
(***************************************************************************)
\* chunk_text's loop is followed for at most MaxIter iterations.
MaxIter == 4

Min(S) == CHOOSE x \in S : \A y \in S : x <= y
Max(S) == 0 - Min({0 - x : x \in S})
Rep(c, n) == [i \in 1..n |-> c]

(***************************************************************************)
(* Characters.  NonAscii stands for one character outside ASCII.           *)
(***************************************************************************)
NonAscii == "U+00E9"
\* str.split() / str.strip() / regex \s: whitespace characters
IsSpace(c) == c \in {" ", "\t", "\n"}
\* text.encode('ascii', 'ignore') keeps exactly the ASCII characters
IsAscii(c) == c # NonAscii
\* the class [\w\s.,;:!?()\[\]\-] that re.sub leaves in place
IsKept(c) == c \notin {"@", "#", "$", "%", "&", "*", "/", "'"}

(***************************************************************************)
(* Metadata values are JSON-like Python values, tagged with their type.    *)
(***************************************************************************)
PyStr(s) == [t |-> "str", s |-> s, n |-> 0]
PyInt(n) == [t |-> "int", s |-> "", n |-> n]
PyDatetime(s) == [t |-> "datetime", s |-> s, n |-> 0]

\* str.strip(): the text without its leading and trailing whitespace
strip(s) ==
    LET ns == {i \in 1..Len(s) : ~IsSpace(s[i])}
    IN  IF ns = {} THEN <<>> ELSE SubSeq(s, Min(ns), Max(ns))

\* ' '.join(text.split()): whitespace runs collapsed to one space, none at
\* either end
JoinSplit(s) ==
    LET ns == {i \in 1..Len(s) : ~IsSpace(s[i])}
        first == IF ns = {} THEN 0 ELSE Min(ns)
        last == IF ns = {} THEN 0 ELSE Max(ns)
        cells == [i \in 1..Len(s) |-> <<i, s[i]>>]
        Keep(p) == /\ first <= p[1] /\ p[1] <= last
                   /\ (IsSpace(p[2]) => ~IsSpace(s[p[1] - 1]))
        kept == SelectSeq(cells, Keep)
    IN  [j \in 1..Len(kept) |-> IF IsSpace(kept[j][2]) THEN " " ELSE kept[j][2]]

\* TextProcessor.clean_text
clean_text(raw) ==
    LET joined == JoinSplit(raw)
        ascii == SelectSeq(joined, IsAscii)
        subbed == [i \in 1..Len(ascii) |-> IF IsKept(ascii[i]) THEN ascii[i] ELSE " "]
    IN  strip(subbed)

\* str.rfind(ch, lo, hi): the highest offset in [lo, hi) holding ch, or -1
rfind(s, ch, lo, hi) ==
    LET at == {i \in lo..(hi - 1) : s[i + 1] = ch}
    IN  IF at = {} THEN -1 ELSE Max(at)

\* text[lo:hi]; a slice end beyond the text is clamped to its length
Slice(s, lo, hi) == SubSeq(s, lo + 1, IF hi <= Len(s) THEN hi ELSE Len(s))

\* chunk_text, lines 65-74: the end of the window that starts at st
WindowEnd_NoMin(s, st) == st + chunk_size
WindowEnd(s, st) ==
    LET e0 == IF st + chunk_size <= Len(s) THEN st + chunk_size ELSE Len(s)
        sentence_end == Max({rfind(s, ".", st, e0), rfind(s, "!", st, e0),
                             rfind(s, "?", st, e0)})
    IN  IF e0 < Len(s) /\ sentence_end > st + (chunk_size \div 2)
        THEN sentence_end + 1
        ELSE e0

\* chunk_text, lines 86-91: the start of the next window
NextStart_Forward(e, text_length) == IF e < text_length THEN e + overlap ELSE e
NextStart(e, text_length) ==
    LET s1 == IF e > overlap THEN e - overlap ELSE e
    IN  IF s1 = e /\ e < text_length THEN e ELSE s1

\* chunk_text, lines 76-84: the chunk list after the window [st, e)
Accept_IdFromOne(s, metadata, st, e, cs) ==
    LET chunk_text == strip(Slice(s, st, e))
        chunk_metadata ==
            [k \in DOMAIN metadata \cup {"chunk_start", "chunk_end", "chunk_id"} |->
                CASE k = "chunk_start" -> PyInt(st)
                  [] k = "chunk_end" -> PyInt(e)
                  [] k = "chunk_id" -> PyInt(Len(cs) + 1)
                  [] OTHER -> metadata[k]]
    IN  IF chunk_text # <<>>
        THEN Append(cs, [text |-> chunk_text, metadata |-> chunk_metadata])
        ELSE cs
Accept(s, metadata, st, e, cs) ==
    LET chunk_text == strip(Slice(s, st, e))
        chunk_metadata ==
            [k \in DOMAIN metadata \cup {"chunk_start", "chunk_end", "chunk_id"} |->
                CASE k = "chunk_start" -> PyInt(st)
                  [] k = "chunk_end" -> PyInt(e)
                  [] k = "chunk_id" -> PyInt(Len(cs))
                  [] OTHER -> metadata[k]]
    IN  IF chunk_text # <<>>
        THEN Append(cs, [text |-> chunk_text, metadata |-> chunk_metadata])
        ELSE cs

(***************************************************************************)
(* Inputs.                                                                 *)
(***************************************************************************)
ScenarioText ==
    <<"S", "e", "n", "t", "e", "n", "c", "e", " ", "o", "n", "e", ".", " ",
      "S", "e", "n", "t", "e", "n", "c", "e", " ", "t", "w", "o", ".", " ",
      "S", "e", "n", "t", "e", "n", "c", "e", " ", "t", "h", "r", "e", "e", ".">>
MessyText == <<" ", "a", "\t", "\n", "b", NonAscii, " ", "@", "c", "!", " ">>
BlankText == <<" ", "\t", "@", " ">>

TitleT == [title |-> PyStr("T")]
WordMeta == [title |-> PyStr("W"), created |-> PyDatetime("2024-01-01")]
Metas == {TitleT, WordMeta}

\* raw texts given to process_document in SpecChunk
RunLengths == {1, 200, 201, 1000, 1001, 1300}
GapLengths == {150, 1000, 2000}
SentenceAt == {400, 500, 501, 700, 999}
RawTexts ==
    {ScenarioText, MessyText, BlankText, <<>>}
    \cup {Rep("a", n) : n \in RunLengths}
    \cup {<<"a">> \o Rep("@", n) \o <<"b">> : n \in GapLengths}
    \cup {Rep("a", m) \o <<"?">> \o Rep("b", 600) : m \in SentenceAt}

(***************************************************************************)
(* TextProcessor.process_document, step by step.                           *)
(***************************************************************************)
ChunkInit ==
    /\ pc = "clean"
    /\ doc_text \in RawTexts
    /\ doc_meta \in Metas
    /\ text = <<>>
    /\ start = 0
    /\ end = 0
    /\ chunks = <<>>
    /\ iter = 0

\* process_document line 131 and chunk_text lines 60-62
Clean ==
    /\ pc = "clean"
    /\ text' = clean_text(doc_text)
    /\ start' = 0
    /\ chunks' = <<>>
    /\ pc' = "loop"
    /\ UNCHANGED <<doc_text, doc_meta, end, iter>>

\* one iteration of chunk_text's while loop, lines 64-91
LoopIter ==
    /\ pc = "loop"
    /\ start < Len(text)
    /\ iter < MaxIter
    /\ end' = WindowEnd(text, start)
    /\ chunks' = Accept(text, doc_meta, start, end', chunks)
    /\ start' = NextStart(end', Len(text))
    /\ iter' = iter + 1
    /\ UNCHANGED <<pc, doc_text, doc_meta, text>>

\* the loop condition fails: chunk_text returns chunks, line 93
LoopExit ==
    /\ pc = "loop"
    /\ start >= Len(text)
    /\ pc' = "done"
    /\ UNCHANGED <<doc_text, doc_meta, text, start, end, chunks, iter>>

(***************************************************************************)
(* The embedding model and the faiss index (external collaborators).       *)
(*                                                                         *)
(* A vector is [d, x]: its dimension d and its leading coordinates x; the  *)
(* remaining coordinates are 0.  Coordinates are small integers, so that   *)
(* squared Euclidean distances are exact.                                  *)
(***************************************************************************)
CountOf(s, set) == Cardinality({i \in 1..Len(s) : s[i] \in set})

\* SentenceTransformer.encode of one text: deterministic in the text
Encode(s) == [d |-> EmbeddingDimension,
              x |-> <<Len(s) % 5, CountOf(s, {".", "!", "?"}) % 3>>]

\* the embedding a model of another dimension would produce
EncodeOtherModel(s) == [d |-> 2 * EmbeddingDimension, x |-> Encode(s).x]

Sq(a) == a * a
\* faiss IndexFlatL2's metric
L2Sqr(x, y) == Sq(x[1] - y[1]) + Sq(x[2] - y[2])

\* faiss index.add(embeddings), with the Python wrapper's dimension assertion
IndexAdd_NoCheck(ix, vecs) ==
    [raised |-> FALSE,
     index |-> [ix EXCEPT !.xb = ix.xb \o [i \in 1..Len(vecs) |-> vecs[i].x]]]
IndexAdd_Prepend(ix, vecs) ==
    IF \E i \in 1..Len(vecs) : vecs[i].d # ix.d
    THEN [raised |-> TRUE, index |-> ix]
    ELSE [raised |-> FALSE,
          index |-> [ix EXCEPT !.xb = [i \in 1..Len(vecs) |-> vecs[i].x] \o ix.xb]]
IndexAdd(ix, vecs) ==
    IF \E i \in 1..Len(vecs) : vecs[i].d # ix.d
    THEN [raised |-> TRUE, index |-> ix]
    ELSE [raised |-> FALSE,
          index |-> [ix EXCEPT !.xb = ix.xb \o [i \in 1..Len(vecs) |-> vecs[i].x]]]

\* the label faiss gives a result slot it cannot fill
NoLabel == [idx |-> -1, distance |-> 1000000]

\* faiss index.search(query, k): k (label, distance) pairs, nearest first,
\* equal distances by smaller label, unfilled slots last
RECURSIVE NearestFirst(_, _, _, _)
NearestFirst(ix, q, k, taken) ==
    LET left == (0..(Len(ix.xb) - 1)) \ taken
        D(p) == L2Sqr(q.x, ix.xb[p + 1])
    IN  IF k = 0 THEN <<>>
        ELSE IF left = {} THEN <<NoLabel>> \o NearestFirst(ix, q, k - 1, taken)
        ELSE LET best == CHOOSE p \in left : \A r \in left :
                              D(p) < D(r) \/ (D(p) = D(r) /\ p <= r)
             IN  <<[idx |-> best, distance |-> D(best)]>>
                 \o NearestFirst(ix, q, k - 1, taken \cup {best})
IndexSearch(ix, q, k) == NearestFirst(ix, q, k, {})

(***************************************************************************)
(* Scores and thresholds are rationals [num, den] with den > 0.            *)
(***************************************************************************)
Rat(n, d) == [num |-> n, den |-> d]
GE(a, b) == a.num * b.den >= b.num * a.den
GT(a, b) == a.num * b.den > b.num * a.den

\* search line 98: score = 1.0 / (1.0 + distance)
Score_OneMinus(distance) == Rat(1 - distance, 1)
Score(distance) == Rat(1, 1 + distance)

\* search line 93: the positions search skips
Skip_NoNegative(idx, n) == idx >= n
Skip(idx, n) == idx < 0 \/ idx >= n

\* search line 100: the threshold test
Passes_Strict(score, threshold) == GT(score, threshold)
Passes(score, threshold) == GE(score, threshold)

\* what a call gives back: a value, an exception, or nothing (it never ends)
Returned(v) == [status |-> "ok", exc |-> "", value |-> v]
Raised(e) == [status |-> "raise", exc |-> e, value |-> <<>>]
Hangs == [status |-> "hang", exc |-> "", value |-> <<>>]

\* Python list indexing: a negative index counts from the end
PyInRange(l, i) == -Len(l) <= i /\ i < Len(l)
PyGet(l, i) == IF i < 0 THEN l[Len(l) + i + 1] ELSE l[i + 1]

\* search lines 91-106: the loop over the (idx, distance) pairs
RECURSIVE Collect(_, _, _, _, _)
Collect(pairs, i, ms, threshold, results) ==
    IF i > Len(pairs) THEN Returned(results)
    ELSE LET idx == pairs[i].idx
             score == Score(pairs[i].distance)
         IN  IF Skip(idx, Len(ms))
             THEN Collect(pairs, i + 1, ms, threshold, results)
             ELSE IF Passes(score, threshold)
             THEN IF PyInRange(ms, idx)
                  THEN Collect(pairs, i + 1, ms, threshold,
                               Append(results,
                                      [text |-> PyGet(ms, idx).text,
                                       metadata |-> PyGet(ms, idx).metadata,
                                       score |-> score]))
                  ELSE Raised("IndexError")
             ELSE Collect(pairs, i + 1, ms, threshold, results)

\* list.sort(key=score, reverse=True): stable, so equal scores keep their order
RECURSIVE InsertDesc_BeforeEqual(_, _)
InsertDesc_BeforeEqual(sorted, r) ==
    IF sorted = <<>> THEN <<r>>
    ELSE IF GT(sorted[1].score, r.score)
    THEN <<sorted[1]>> \o InsertDesc_BeforeEqual(Tail(sorted), r)
    ELSE <<r>> \o sorted
RECURSIVE InsertDesc(_, _)
InsertDesc(sorted, r) ==
    IF sorted = <<>> THEN <<r>>
    ELSE IF GE(sorted[1].score, r.score)
    THEN <<sorted[1]>> \o InsertDesc(Tail(sorted), r)
    ELSE <<r>> \o sorted
RECURSIVE SortDesc(_, _)
SortDesc(results, i) ==
    IF i = 0 THEN <<>> ELSE InsertDesc(SortDesc(results, i - 1), results[i])

\* DocumentStore.search
search(ix, ms, query, k, threshold) ==
    LET query_embedding == Encode(query)
        found == Collect(IndexSearch(ix, query_embedding, k), 1, ms, threshold, <<>>)
    IN  IF found.status = "ok"
        THEN Returned(SortDesc(found.value, Len(found.value)))
        ELSE found

(***************************************************************************)
(* TextProcessor.process_document as a function of its arguments.          *)
(***************************************************************************)
\* chunk_text's loop run to its end; diverges when an iteration leaves start
\* where it was (the loop then repeats that iteration for ever)
RECURSIVE chunk_loop(_, _, _, _)
chunk_loop(s, metadata, st, cs) ==
    IF st >= Len(s) THEN [diverges |-> FALSE, chunks |-> cs]
    ELSE LET e == WindowEnd(s, st)
             nxt == NextStart(e, Len(s))
         IN  IF nxt <= st THEN [diverges |-> TRUE, chunks |-> <<>>]
             ELSE chunk_loop(s, metadata, nxt, Accept(s, metadata, st, e, cs))
chunk_text(s, metadata) == chunk_loop(s, metadata, 0, <<>>)

\* embed_chunks, lines 108-112: each chunk with its embedding
embed_chunks(cs, model_ok) ==
    [i \in 1..Len(cs) |->
        [text |-> cs[i].text, metadata |-> cs[i].metadata,
         embedding |-> IF model_ok THEN Encode(cs[i].text)
                       ELSE EncodeOtherModel(cs[i].text)]]

\* add_document lines 62-66: the chunk dicts appended to metadata_store
MetadataAppend_SkipFirst(ms, cs) ==
    ms \o [i \in 1..(Len(cs) - 1) |->
            [text |-> cs[i + 1].text, metadata |-> cs[i + 1].metadata,
             embedding |-> [kind |-> "list", d |-> cs[i + 1].embedding.d,
                            x |-> cs[i + 1].embedding.x]]]
MetadataAppend(ms, cs) ==
    ms \o [i \in 1..Len(cs) |->
            [text |-> cs[i].text, metadata |-> cs[i].metadata,
             embedding |-> [kind |-> "list", d |-> cs[i].embedding.d,
                            x |-> cs[i].embedding.x]]]

\* clear line 164: a new empty index
NewIndex_Keep(ix, dim) == ix
NewIndex(ix, dim) == [d |-> dim, xb |-> <<>>]

(***************************************************************************)
(* Persistence: faiss.write_index / read_index and json.dump / json.load.  *)
(***************************************************************************)
\* faiss.write_index(index, file): header (dimension, count) and the vectors
write_index(ix) == [exists |-> TRUE, d |-> ix.d, ntotal |-> Len(ix.xb), xb |-> ix.xb]
\* faiss.read_index(file)
read_index(f) == [d |-> f.d, xb |-> SubSeq(f.xb, 1, f.ntotal)]

\* json's encoding of one metadata value; a datetime has none (TypeError)
JsonSerializable(v) == v.t \in {"str", "int"}
JsonEncode(v) ==
    IF v.t = "str" THEN [j |-> "string", s |-> v.s, n |-> 0]
    ELSE [j |-> "number", s |-> "", n |-> v.n]
\* json's decoding of one value
JsonDecode_AllStrings(j) == PyStr(j.s)
JsonDecode(j) == IF j.j = "string" THEN PyStr(j.s) ELSE PyInt(j.n)

RecordSerializable(r) ==
    \A key \in DOMAIN r.metadata : JsonSerializable(r.metadata[key])
EncodeRecord(r) ==
    [text |-> r.text,
     metadata |-> [key \in DOMAIN r.metadata |-> JsonEncode(r.metadata[key])],
     embedding |-> [j |-> "array", d |-> r.embedding.d, x |-> r.embedding.x]]

\* save lines 130-131: open(.., 'w') and json.dump(metadata_store, f).  json
\* writes as it encodes: a value it cannot encode raises after the records
\* before it were written, and leaves the file truncated.
json_dump(ms) ==
    LET bad == {i \in 1..Len(ms) : ~RecordSerializable(ms[i])}
        n == IF bad = {} THEN Len(ms) ELSE Min(bad) - 1
    IN  [raised |-> bad # {},
         file |-> [state |-> IF bad = {} THEN "valid" ELSE "truncated",
                   records |-> [i \in 1..n |-> EncodeRecord(ms[i])]]]

\* load lines 151-158: json.load, then each embedding back to a numpy array
json_load_Reversed(f) ==
    [i \in 1..Len(f.records) |->
        LET r == f.records[Len(f.records) + 1 - i]
        IN  [text |-> r.text,
             metadata |-> [key \in DOMAIN r.metadata |-> JsonDecode(r.metadata[key])],
             embedding |-> [kind |-> "ndarray", d |-> r.embedding.d,
                            x |-> r.embedding.x]]]
json_load(f) ==
    [i \in 1..Len(f.records) |->
        LET r == f.records[i]
        IN  [text |-> r.text,
             metadata |-> [key \in DOMAIN r.metadata |-> JsonDecode(r.metadata[key])],
             embedding |-> [kind |-> "ndarray", d |-> r.embedding.d,
                            x |-> r.embedding.x]]]

(***************************************************************************)
(* More bounds and inputs.                                                 *)
(***************************************************************************)
\* metadata_store holds at most MaxChunks records
MaxChunks == 2
\* search is called with k in 1..MaxK
MaxK == 2

DefaultDir == "data/document_store"
OtherDir == "backup"
Paths == {DefaultDir, OtherDir}

\* texts given to add_document; the last one is longer than overlap
DocTexts == {ScenarioText, MessyText, BlankText, Rep("a", overlap + 1)}
\* what the embedding call does: returns vectors of the index's dimension,
\* raises, or returns vectors of another dimension
Outcomes == {"ok", "raise", "baddim"}
Queries == {ScenarioText, <<"h", "i">>, <<"w", "h", "y", "?">>}
Thresholds == {Rat(0, 10), Rat(5, 10), Rat(10, 10), Rat(11, 10)}

NoFiles == [index |-> [exists |-> FALSE, d |-> 0, ntotal |-> 0, xb |-> <<>>],
            metadata |-> [state |-> "absent", records |-> <<>>]]

(***************************************************************************)
(* DocumentStore.                                                          *)
(***************************************************************************)
\* DocumentStore.__init__
StoreInit ==
    /\ index = [d |-> EmbeddingDimension, xb |-> <<>>]
    /\ metadata_store = <<>>
    /\ dimension = EmbeddingDimension
    /\ persist_dir \in Paths
    /\ disk = [p \in Paths |-> NoFiles]
    /\ lastOp = [op |-> "init", args |-> <<>>]
    /\ ret = Returned(<<>>)

\* DocumentStore.add_document(text, metadata), the embedding call ending as o
AddDocument(t, m, o) ==
    LET run == chunk_text(clean_text(t), m)
        cs == embed_chunks(run.chunks, o = "ok")
        added == IndexAdd(index, [i \in 1..Len(cs) |-> cs[i].embedding])
    IN  /\ (run.diverges \/ run.chunks = <<>>) => o = "ok"
        /\ Len(metadata_store) + Len(run.chunks) <= MaxChunks
        /\ lastOp' = [op |-> "add_document",
                      args |-> [text |-> t, metadata |-> m, outcome |-> o]]
        /\ IF run.diverges
           THEN /\ ret' = Hangs
                /\ UNCHANGED <<index, metadata_store>>
           ELSE IF run.chunks = <<>>
           THEN /\ ret' = Returned(<<>>)
                /\ UNCHANGED <<index, metadata_store>>
           ELSE IF o = "raise"
           THEN /\ ret' = Raised("ProviderError")
                /\ UNCHANGED <<index, metadata_store>>
           ELSE IF added.raised
           THEN /\ index' = added.index
                /\ ret' = Raised("AssertionError")
                /\ UNCHANGED metadata_store
           ELSE /\ index' = added.index
                /\ metadata_store' = MetadataAppend(metadata_store, cs)
                /\ ret' = Returned(cs)
        /\ UNCHANGED <<dimension, persist_dir, disk>>

\* DocumentStore.clear
Clear ==
    /\ index' = NewIndex(index, dimension)
    /\ metadata_store' = <<>>
    /\ lastOp' = [op |-> "clear", args |-> <<>>]
    /\ ret' = Returned(<<>>)
    /\ UNCHANGED <<dimension, persist_dir, disk>>

\* DocumentStore.search(query, k, threshold)
Search(q, k, threshold) ==
    /\ ret' = search(index, metadata_store, q, k, threshold)
    /\ lastOp' = [op |-> "search",
                  args |-> [query |-> q, k |-> k, threshold |-> threshold]]
    /\ UNCHANGED <<index, metadata_store, dimension, persist_dir, disk>>

\* DocumentStore.save(path); arg "None" is the default argument
Save(arg) ==
    LET path == IF arg = "None" THEN persist_dir ELSE arg
        dump == json_dump(metadata_store)
    IN  /\ disk' = [disk EXCEPT ![path] = [index |-> write_index(index),
                                           metadata |-> dump.file]]
        /\ lastOp' = [op |-> "save", args |-> [path |-> path]]
        /\ ret' = IF dump.raised THEN Raised("TypeError") ELSE Returned(<<>>)
        /\ UNCHANGED <<index, metadata_store, dimension, persist_dir>>

\* store = DocumentStore.load(path): on success the loaded store replaces
\* the one in use
Load(path) ==
    /\ lastOp' = [op |-> "load", args |-> [path |-> path]]
    /\ IF disk[path].index.exists /\ disk[path].metadata.state = "valid"
       THEN /\ index' = read_index(disk[path].index)
            /\ metadata_store' = json_load(disk[path].metadata)
            /\ dimension' = EmbeddingDimension
            /\ persist_dir' = DefaultDir
            /\ ret' = Returned(<<>>)
       ELSE /\ ret' = Raised("LoadError")
            /\ UNCHANGED <<index, metadata_store, dimension, persist_dir>>
    /\ UNCHANGED disk

\* the threads that call add_document or clear
Mutators == {"m1", "m2"}
IdleCall == [op |-> "none", pc |-> "idle", cs |-> <<>>, i |-> 0, overlapped |-> FALSE]
IdleSearch == [pc |-> "idle", query |-> <<>>, k |-> 0, threshold |-> Rat(0, 1),
               hits |-> <<>>, j |-> 0, results |-> <<>>, ret |-> Returned(<<>>)]
\* no call is in progress
ThreadsIdle ==
    /\ calls = [t \in Mutators |-> IdleCall]
    /\ srch = IdleSearch

ChunkIdle ==
    /\ pc = "idle"
    /\ doc_text = <<>>
    /\ doc_meta = TitleT
    /\ text = <<>>
    /\ start = 0
    /\ end = 0
    /\ chunks = <<>>
    /\ iter = 0

Init == ChunkIdle /\ StoreInit /\ ThreadsIdle

Next ==
    \/ \E t \in DocTexts, m \in Metas, o \in Outcomes :
          AddDocument(t, m, o) /\ UNCHANGED <<chunkVars, threadVars>>
    \/ Clear /\ UNCHANGED <<chunkVars, threadVars>>
    \/ \E q \in Queries, k \in 1..MaxK, threshold \in Thresholds :
          Search(q, k, threshold) /\ UNCHANGED <<chunkVars, threadVars>>

Spec == Init /\ [][Next]_vars

\* documents added in SpecPersist
PersistDocs == {<<ScenarioText, TitleT>>, <<MessyText, TitleT>>}

PersistNext ==
    \/ \E doc \in PersistDocs :
          AddDocument(doc[1], doc[2], "ok") /\ UNCHANGED <<chunkVars, threadVars>>
    \/ Clear /\ UNCHANGED <<chunkVars, threadVars>>
    \/ \E arg \in Paths \cup {"None"} : Save(arg) /\ UNCHANGED <<chunkVars, threadVars>>
    \/ \E path \in Paths : Load(path) /\ UNCHANGED <<chunkVars, threadVars>>

SpecPersist == Init /\ [][PersistNext]_vars

ChunkNext ==
    \/ Clean /\ UNCHANGED <<storeVars, threadVars>>
    \/ LoopIter /\ UNCHANGED <<storeVars, threadVars>>
    \/ LoopExit /\ UNCHANGED <<storeVars, threadVars>>

\* process_document is called on a freshly constructed store's processor
ProcessInit == ChunkInit /\ StoreInit /\ ThreadsIdle

SpecChunk == ProcessInit /\ [][ChunkNext]_vars

(***************************************************************************)
(* DocumentStore called from several threads.  The class takes no lock, so *)
(* a thread may be pre-empted between any two statements: add_document is  *)
(* the index append (line 60) followed by one metadata append per chunk    *)
(* (lines 63-66), clear is line 164 followed by line 165, and search reads *)
(* len(self.metadata_store) at line 93 and self.metadata_store[idx] at     *)
(* line 101.                                                               *)
(***************************************************************************)
\* thread t is between the first and the last statement of its call
Mid(t) == calls[t].pc \notin {"idle", "done"}

\* add_document and clear acquire nothing before they run: a call never
\* waits for a call of another thread
Waits_Lock(t) == \E u \in Mutators \ {t} : Mid(u)
Waits(t) == FALSE

\* documents added and queries searched in SpecConc
ConcDocs == {<<ScenarioText, TitleT>>, <<MessyText, TitleT>>, <<BlankText, TitleT>>}
ConcThresholds == {Rat(0, 10), Rat(5, 10)}

\* the calls of the other threads, marked as overlapped by t's new call when
\* they are in progress
Started(t, call) ==
    [u \in Mutators |->
        IF u = t
        THEN [call EXCEPT !.overlapped = \E v \in Mutators \ {t} : Mid(v)]
        ELSE [calls[u] EXCEPT !.overlapped = @ \/ Mid(u)]]

\* thread t calls add_document(doc): lines 49-56, up to the index append
BeginAdd(t, doc) ==
    LET run == chunk_text(clean_text(doc[1]), doc[2])
        cs == embed_chunks(run.chunks, TRUE)
    IN  /\ calls[t].pc = "idle"
        /\ ~Waits(t)
        /\ ~run.diverges
        /\ calls' = Started(t, [op |-> "add_document",
                                pc |-> IF cs = <<>> THEN "done" ELSE "index_add",
                                cs |-> cs, i |-> 1, overlapped |-> FALSE])
        /\ UNCHANGED <<chunkVars, storeVars, srch>>

\* add_document lines 59-60: self.index.add(embeddings)
AddToIndex(t) ==
    LET c == calls[t]
        added == IndexAdd(index, [i \in 1..Len(c.cs) |-> c.cs[i].embedding])
    IN  /\ c.pc = "index_add"
        /\ Len(index.xb) + Len(c.cs) <= MaxChunks
        /\ index' = added.index
        /\ calls' = [calls EXCEPT ![t].pc = IF added.raised THEN "done" ELSE "append"]
        /\ UNCHANGED <<chunkVars, metadata_store, dimension, persist_dir, disk,
                       lastOp, ret, srch>>

\* add_document lines 63-66: one iteration of the loop over chunks
AppendRecord(t) ==
    LET c == calls[t]
    IN  /\ c.pc = "append"
        /\ metadata_store' = MetadataAppend(metadata_store, <<c.cs[c.i]>>)
        /\ calls' = [calls EXCEPT ![t].i = c.i + 1,
                                  ![t].pc = IF c.i = Len(c.cs) THEN "done" ELSE "append"]
        /\ UNCHANGED <<chunkVars, index, dimension, persist_dir, disk,
                       lastOp, ret, srch>>

\* thread t calls clear()
BeginClear(t) ==
    /\ calls[t].pc = "idle"
    /\ ~Waits(t)
    /\ calls' = Started(t, [op |-> "clear", pc |-> "clear_index",
                            cs |-> <<>>, i |-> 0, overlapped |-> FALSE])
    /\ UNCHANGED <<chunkVars, storeVars, srch>>

\* clear line 164
ClearIndex(t) ==
    /\ calls[t].pc = "clear_index"
    /\ index' = NewIndex(index, dimension)
    /\ calls' = [calls EXCEPT ![t].pc = "clear_metadata"]
    /\ UNCHANGED <<chunkVars, metadata_store, dimension, persist_dir, disk,
                   lastOp, ret, srch>>

\* clear line 165
ClearMetadata(t) ==
    /\ calls[t].pc = "clear_metadata"
    /\ metadata_store' = <<>>
    /\ calls' = [calls EXCEPT ![t].pc = "done"]
    /\ UNCHANGED <<chunkVars, index, dimension, persist_dir, disk,
                   lastOp, ret, srch>>

\* search lines 83-91: the query's embedding and the index lookup
SearchBegin(q, k, threshold) ==
    /\ srch.pc = "idle"
    /\ srch' = [pc |-> "loop", query |-> q, k |-> k, threshold |-> threshold,
                hits |-> IndexSearch(index, Encode(q), k), j |-> 1,
                results |-> <<>>, ret |-> Returned(<<>>)]
    /\ UNCHANGED <<chunkVars, storeVars, calls>>

\* search lines 92-100 for one (idx, distance) pair: the bounds test against
\* the list's length now, the score and the threshold test
SearchCheck ==
    LET h == srch.hits[srch.j]
    IN  /\ srch.pc = "loop"
        /\ srch.j <= Len(srch.hits)
        /\ srch' = IF Skip(h.idx, Len(metadata_store))
                   THEN [srch EXCEPT !.j = @ + 1]
                   ELSE IF Passes(Score(h.distance), srch.threshold)
                   THEN [srch EXCEPT !.pc = "read"]
                   ELSE [srch EXCEPT !.j = @ + 1]
        /\ UNCHANGED <<chunkVars, storeVars, calls>>

\* search lines 101-106: self.metadata_store[idx] as the list is now
SearchRead ==
    LET h == srch.hits[srch.j]
    IN  /\ srch.pc = "read"
        /\ srch' = IF PyInRange(metadata_store, h.idx)
                   THEN [srch EXCEPT
                            !.pc = "loop", !.j = @ + 1,
                            !.results = Append(@,
                                [text |-> PyGet(metadata_store, h.idx).text,
                                 metadata |-> PyGet(metadata_store, h.idx).metadata,
                                 score |-> Score(h.distance)])]
                   ELSE [srch EXCEPT !.pc = "done", !.ret = Raised("IndexError")]
        /\ UNCHANGED <<chunkVars, storeVars, calls>>

\* search lines 108-110: sort and return
SearchReturn ==
    /\ srch.pc = "loop"
    /\ srch.j > Len(srch.hits)
    /\ srch' = [srch EXCEPT !.pc = "done",
                            !.ret = Returned(SortDesc(srch.results, Len(srch.results)))]
    /\ UNCHANGED <<chunkVars, storeVars, calls>>

ConcNext ==
    \/ \E t \in Mutators, doc \in ConcDocs : BeginAdd(t, doc)
    \/ \E t \in Mutators : AddToIndex(t)
    \/ \E t \in Mutators : AppendRecord(t)
    \/ \E t \in Mutators : BeginClear(t)
    \/ \E t \in Mutators : ClearIndex(t)
    \/ \E t \in Mutators : ClearMetadata(t)
    \/ \E k \in 1..MaxK, threshold \in ConcThresholds : SearchBegin(ScenarioText, k, threshold)
    \/ SearchCheck
    \/ SearchRead
    \/ SearchReturn

SpecConc == Init /\ [][ConcNext]_vars

(***************************************************************************)
(* The service: main.py's upload endpoint, DocumentProcessor and the       *)
(* document loaders.  File names are sequences of characters.  Requests    *)
(* are served one at a time (the endpoints are coroutines that never       *)
(* yield), so every request is one step.                                   *)
(***************************************************************************)
\* str.lower() on the characters that occur in the file names below
lower(s) ==
    [i \in 1..Len(s) |->
        CASE s[i] = "P" -> "p" [] s[i] = "D" -> "d" [] s[i] = "F" -> "f"
          [] s[i] = "T" -> "t" [] s[i] = "X" -> "x" [] OTHER -> s[i]]

\* pathlib's Path(name).suffix: the name from its last dot on, unless that
\* dot is the first or the last character
suffix(name) ==
    LET dots == {i \in 1..Len(name) : name[i] = "."}
        i == IF dots = {} THEN 0 ELSE Max(dots)
    IN  IF 1 < i /\ i < Len(name) THEN SubSeq(name, i, Len(name)) ELSE <<>>

ExtPdf == <<".", "p", "d", "f">>
ExtDocx == <<".", "d", "o", "c", "x">>
ExtDoc == <<".", "d", "o", "c">>
ExtTxt == <<".", "t", "x", "t">>
ExtEml == <<".", "e", "m", "l">>
ExtMsg == <<".", "m", "s", "g">>

\* main.py get_allowed_extensions
get_allowed_extensions == {ExtPdf, ExtDocx, ExtDoc, ExtTxt, ExtEml}

\* document_loader.get_document_loader(file_path)
get_document_loader_WithTxt(exists, name) ==
    LET ext == lower(suffix(name))
    IN  IF ~exists THEN Raised("FileNotFoundError")
        ELSE IF ext = ExtPdf THEN Returned("PDFLoader")
        ELSE IF ext \in {ExtDocx, ExtDoc} THEN Returned("WordLoader")
        ELSE IF ext \in {ExtEml, ExtMsg, ExtTxt} THEN Returned("EmailLoader")
        ELSE Raised("Unsupported file format")
get_document_loader(exists, name) ==
    LET ext == lower(suffix(name))
    IN  IF ~exists THEN Raised("FileNotFoundError")
        ELSE IF ext = ExtPdf THEN Returned("PDFLoader")
        ELSE IF ext \in {ExtDocx, ExtDoc} THEN Returned("WordLoader")
        ELSE IF ext \in {ExtEml, ExtMsg} THEN Returned("EmailLoader")
        ELSE Raised("Unsupported file format")

\* loader.load(file_path) and loader.get_metadata(): the text and the
\* metadata the loader extracts from a file's content, or its exception
LoaderLoad(loader, content) ==
    IF content.kind = "corrupt"
    THEN [raised |-> TRUE, exc |-> "Error loading file", text |-> <<>>,
          metadata |-> [title |-> PyStr("")]]
    ELSE [raised |-> FALSE, exc |-> "", text |-> content.text,
          metadata |->
            CASE loader = "PDFLoader" ->
                   [title |-> PyStr(content.title), author |-> PyStr(""),
                    pages |-> PyInt(1)]
              [] loader = "WordLoader" ->
                   [title |-> PyStr(content.title), author |-> PyStr(""),
                    created |-> PyDatetime(content.date),
                    modified |-> PyDatetime(content.date)]
              [] OTHER ->
                   [subject |-> PyStr(content.title), from |-> PyStr(""),
                    to |-> PyStr(""), date |-> PyStr(content.date)]]

\* DocumentStore.add_document as a function of the store and its arguments
StoreAdd(ix, ms, t, m, o) ==
    LET run == chunk_text(clean_text(t), m)
        cs == embed_chunks(run.chunks, o = "ok")
        added == IndexAdd(ix, [i \in 1..Len(cs) |-> cs[i].embedding])
    IN  IF run.diverges
        THEN [index |-> ix, metadata_store |-> ms, ret |-> Hangs]
        ELSE IF run.chunks = <<>>
        THEN [index |-> ix, metadata_store |-> ms, ret |-> Returned(<<>>)]
        ELSE IF o = "raise"
        THEN [index |-> ix, metadata_store |-> ms, ret |-> Raised("ProviderError")]
        ELSE IF added.raised
        THEN [index |-> added.index, metadata_store |-> ms,
              ret |-> Raised("AssertionError")]
        ELSE [index |-> added.index, metadata_store |-> MetadataAppend(ms, cs),
              ret |-> Returned(cs)]

\* what DocumentProcessor.add_document returns
Success(n) == [status |-> "success", error |-> "", chunks_processed |-> n]
Error(e) == [status |-> "error", error |-> e, chunks_processed |-> 0]

\* DocumentProcessor.add_document lines 46-54: self.document_store.save()
\* after the store's add_document returned, and the returned dict
SaveAfterAdd(dsk, dir, added, dump) ==
    [store |-> [index |-> added.index, metadata_store |-> added.metadata_store,
                disk |-> [dsk EXCEPT ![dir] = [index |-> write_index(added.index),
                                               metadata |-> dump.file]]],
     result |-> IF dump.raised THEN Error("TypeError")
                ELSE Success(Len(added.ret.value))]

\* DocumentProcessor.add_document lines 43-60, given what the store's
\* add_document did
AfterStoreAdd(dsk, dir, added) ==
    IF added.ret.status = "ok"
    THEN SaveAfterAdd(dsk, dir, added, json_dump(added.metadata_store))
    ELSE [store |-> [index |-> added.index,
                     metadata_store |-> added.metadata_store, disk |-> dsk],
          result |-> IF added.ret.status = "raise" THEN Error(added.ret.exc)
                     ELSE [status |-> "hang", error |-> "", chunks_processed |-> 0]]

\* DocumentProcessor.add_document lines 40-60, given what the loader read
AfterLoad(ix, ms, dsk, dir, loaded, o) ==
    IF loaded.raised
    THEN [store |-> [index |-> ix, metadata_store |-> ms, disk |-> dsk],
          result |-> Error(loaded.exc)]
    ELSE AfterStoreAdd(dsk, dir, StoreAdd(ix, ms, loaded.text, loaded.metadata, o))

\* DocumentProcessor.add_document lines 39-60, given the loader found
AfterLoader(ix, ms, dsk, dir, loader, file, o) ==
    IF loader.status = "raise"
    THEN [store |-> [index |-> ix, metadata_store |-> ms, disk |-> dsk],
          result |-> Error(loader.exc)]
    ELSE AfterLoad(ix, ms, dsk, dir, LoaderLoad(loader.value, file.content), o)

\* DocumentProcessor.add_document(file_path): the store, the files of
\* directory dir and the returned dict
ProcessorAdd(ix, ms, dsk, dir, file, o) ==
    AfterLoader(ix, ms, dsk, dir, get_document_loader(file.exists, file.name), file, o)

\* DocumentStore.__init__ as DocumentProcessor.__init__ calls it: a new,
\* empty store; the files in persist_dir are not read
StartupStore_Load(dsk, dir) ==
    IF dsk[dir].index.exists /\ dsk[dir].metadata.state = "valid"
    THEN [index |-> read_index(dsk[dir].index),
          metadata_store |-> json_load(dsk[dir].metadata)]
    ELSE [index |-> [d |-> EmbeddingDimension, xb |-> <<>>], metadata_store |-> <<>>]
StartupStore(dsk, dir) ==
    [index |-> [d |-> EmbeddingDimension, xb |-> <<>>], metadata_store |-> <<>>]

\* uploaded and directly added files
GoodContent == [kind |-> "ok", text |-> <<"H", "i", ".">>, title |-> "T", date |-> "2024-01-01"]
BlankContent == [kind |-> "ok", text |-> BlankText, title |-> "T", date |-> "2024-01-01"]
CorruptContent == [kind |-> "corrupt", text |-> <<>>, title |-> "", date |-> ""]
\* the uploads: <<file name, content>>
Uploads ==
    {<<<<"r">> \o ExtPdf, GoodContent>>,
     <<<<"r", ".", "P", "D", "F">>, BlankContent>>,
     <<<<"r">> \o ExtDocx, GoodContent>>,
     <<<<"r">> \o ExtDoc, CorruptContent>>,
     <<<<"r">> \o ExtTxt, GoodContent>>,
     <<<<"r">> \o ExtEml, BlankContent>>,
     <<<<"r">> \o ExtMsg, GoodContent>>,
     <<ExtTxt, GoodContent>>}
TempName(ext) == <<"t", "m", "p">> \o ext
\* a path given to DocumentProcessor.add_document that names no file
DirectFiles ==
    {[name |-> <<"r">> \o ExtPdf, exists |-> FALSE, content |-> GoodContent]}

\* files another program left in a directory: an index of another dimension
ForeignFiles ==
    [index |-> [exists |-> TRUE, d |-> 2 * EmbeddingDimension, ntotal |-> 1,
                xb |-> <<<<1, 1>>>>],
     metadata |-> [state |-> "valid",
                   records |-> <<[text |-> <<"x">>,
                                  metadata |-> [title |-> JsonEncode(PyStr("F"))],
                                  embedding |-> [j |-> "array",
                                                 d |-> 2 * EmbeddingDimension,
                                                 x |-> <<1, 1>>]]>>]]

\* the number of records the metadata file of directory dir holds
PersistedCount(dsk, dir) == Len(dsk[dir].metadata.records)

\* the embedding call of an upload is reached: the outcome o matters
ReachesEmbedding(file) ==
    /\ get_document_loader(file.exists, file.name).status = "ok"
    /\ file.content.kind = "ok"
    /\ chunk_text(clean_text(file.content.text), <<>>).chunks # <<>>

\* POST /documents/upload with a file called name: lines 78-116
Upload(name, content, o) ==
    \E ext \in {lower(suffix(name))} :
    \E file \in {[name |-> TempName(ext), exists |-> TRUE, content |-> content]} :
    \E r \in {ProcessorAdd(index, metadata_store, disk, persist_dir, file, o)} :
        /\ ~ReachesEmbedding(file) => o = "ok"
        /\ lastOp' = [op |-> "upload",
                      args |-> [ext |-> ext, outcome |-> o,
                                allowed |-> ext \in get_allowed_extensions,
                                result |-> IF ext \in get_allowed_extensions
                                           THEN r.result ELSE Error("not allowed"),
                                first |-> lastOp.op = "restart",
                                persisted_before |-> PersistedCount(disk, persist_dir)]]
        /\ IF ext \notin get_allowed_extensions
           THEN /\ ret' = Raised("HTTP 400")
                /\ UNCHANGED <<index, metadata_store, disk>>
           ELSE /\ Len(r.store.metadata_store) <= MaxChunks
                /\ index' = r.store.index
                /\ metadata_store' = r.store.metadata_store
                /\ disk' = r.store.disk
                /\ ret' = IF r.result.status = "error" THEN Raised("HTTP 500")
                          ELSE Returned(<<>>)
        /\ UNCHANGED <<dimension, persist_dir>>

\* DocumentProcessor.add_document(file_path) called directly
AddFile(file, o) ==
    \E r \in {ProcessorAdd(index, metadata_store, disk, persist_dir, file, o)} :
        /\ ~ReachesEmbedding(file) => o = "ok"
        /\ Len(r.store.metadata_store) <= MaxChunks
        /\ lastOp' = [op |-> "processor.add_document",
                      args |-> [ext |-> lower(suffix(file.name)),
                                outcome |-> o, allowed |-> TRUE,
                                result |-> r.result,
                                first |-> lastOp.op = "restart",
                                persisted_before |-> PersistedCount(disk, persist_dir)]]
        /\ index' = r.store.index
        /\ metadata_store' = r.store.metadata_store
        /\ disk' = r.store.disk
        /\ ret' = Returned(<<>>)
        /\ UNCHANGED <<dimension, persist_dir>>

\* the service starts again: main.py line 30 constructs a DocumentProcessor
\* on directory dir
Restart(dir) ==
    LET store == StartupStore(disk, dir)
    IN  /\ index' = store.index
        /\ metadata_store' = store.metadata_store
        /\ dimension' = EmbeddingDimension
        /\ persist_dir' = dir
        /\ lastOp' = [op |-> "restart", args |-> [path |-> dir]]
        /\ ret' = Returned(<<>>)
        /\ UNCHANGED disk

\* the service's first start, on a file system that may hold foreign files
ServiceInit ==
    /\ index = [d |-> EmbeddingDimension, xb |-> <<>>]
    /\ metadata_store = <<>>
    /\ dimension = EmbeddingDimension
    /\ persist_dir \in Paths
    /\ disk \in {[p \in Paths |-> IF p = OtherDir THEN f ELSE NoFiles] :
                    f \in {NoFiles, ForeignFiles}}
    /\ lastOp = [op |-> "restart", args |-> [path |-> persist_dir]]
    /\ ret = Returned(<<>>)
    /\ ChunkIdle
    /\ ThreadsIdle

ServiceNext ==
    \/ \E up \in Uploads, o \in Outcomes :
          Upload(up[1], up[2], o) /\ UNCHANGED <<chunkVars, threadVars>>
    \/ \E file \in DirectFiles, o \in Outcomes :
          AddFile(file, o) /\ UNCHANGED <<chunkVars, threadVars>>
    \/ \E dir \in Paths : Restart(dir) /\ UNCHANGED <<chunkVars, threadVars>>
    \/ \E path \in Paths : Load(path) /\ UNCHANGED <<chunkVars, threadVars>>
    \/ Save("None") /\ UNCHANGED <<chunkVars, threadVars>>
    \/ Clear /\ UNCHANGED <<chunkVars, threadVars>>

SpecService == ServiceInit /\ [][ServiceNext]_vars

(***************************************************************************)
(* Properties.                                                             *)
(***************************************************************************)
ChunkStart(c) == c.metadata["chunk_start"].n
ChunkEnd(c) == c.metadata["chunk_end"].n
\* the offsets chunk_text has moved past: no later window reaches them
Passed == 0..((IF start <= Len(text) THEN start ELSE Len(text)) - 1)
\* offset i lies in the span of a chunk of the list chunk_text is building
Covered(i) == \E c \in 1..Len(chunks) : ChunkStart(chunks[c]) <= i /\ i < ChunkEnd(chunks[c])

\* C1: after any sequence of add_document and clear calls (failed and
\* chunkless add_document calls included) the index holds as many vectors as
\* metadata_store holds records, which is what size() reports.
C1_IndexCountIsSize == Len(index.xb) = Len(metadata_store)
\* an add_document whose embedding call raised, on a store that holds a chunk
C1_Witness ==
    /\ lastOp.op = "add_document"
    /\ ret.exc = "ProviderError"
    /\ Len(metadata_store) = 1

\* C2: in every iteration of chunk_text's loop the next start is greater
\* than the current start or equals end (the progress that termination
\* rests on).
C2_StartAdvances ==
    [][(pc = "loop" /\ iter' = iter + 1) => (start' > start \/ start' = end')]_vars

\* C3: an add_document whose embedding call raises, or returns vectors of
\* another dimension than the index's, raises and leaves index and
\* metadata_store as they were.
C3_AllOrNothing ==
    [][(lastOp'.op = "add_document" /\ lastOp'.args.outcome # "ok")
        => (/\ ret'.status = "raise"
            /\ index' = index
            /\ metadata_store' = metadata_store)]_vars
\* an add_document rejected for its embeddings' dimension, on a store that
\* holds a chunk
C3_Witness ==
    /\ lastOp.op = "add_document"
    /\ lastOp.args.outcome = "baddim"
    /\ ret.exc = "AssertionError"
    /\ Len(metadata_store) >= 1

\* the search results of a store, for every query, k and threshold
AllSearches(ix, ms) ==
    [q \in Queries |-> [k \in 1..MaxK |-> [threshold \in Thresholds |->
        search(ix, ms, q, k, threshold)]]]

C6_SpanBounded ==
    \A c \in 1..Len(chunks) :
        /\ 0 <= ChunkStart(chunks[c])
        /\ ChunkStart(chunks[c]) < ChunkEnd(chunks[c])
        /\ ChunkEnd(chunks[c]) <= Len(text)
        /\ ChunkEnd(chunks[c]) - ChunkStart(chunks[c]) <= chunk_size
        /\ Len(chunks[c].text) <= ChunkEnd(chunks[c]) - ChunkStart(chunks[c])
\* a text longer than chunk_size whose first window was cut back to a
\* sentence end, and a second chunk of full size
C6_Witness ==
    /\ Len(text) > chunk_size
    /\ Len(chunks) >= 2
    /\ ChunkEnd(chunks[1]) < chunk_size
    /\ ChunkEnd(chunks[2]) - ChunkStart(chunks[2]) >= chunk_size - overlap

ScenarioMetadata(chunk_end) ==
    [title |-> PyStr("T"), chunk_start |-> PyInt(0),
     chunk_end |-> PyInt(chunk_end), chunk_id |-> PyInt(0)]
ScenarioAdded ==
    /\ lastOp.op = "add_document"
    /\ lastOp.args.text = ScenarioText
    /\ DOMAIN lastOp.args.metadata = {"title"}
    /\ lastOp.args.outcome = "ok"
ScenarioYields(chunk_end) ==
    /\ ret.status = "ok"
    /\ Len(ret.value) = 1
    /\ ret.value[1].text = ScenarioText
    /\ ret.value[1].metadata = ScenarioMetadata(chunk_end)
    /\ metadata_store[Len(metadata_store)].metadata = ScenarioMetadata(chunk_end)

\* C7 as claimed: add_document of the scenario text with {title: "T"} yields
\* exactly one chunk, with metadata {title: "T", chunk_start: 0,
\* chunk_end: 44, chunk_id: 0}.
C7_ScenarioEndsAt44 == ScenarioAdded => ScenarioYields(44)
\* C7 as amended: the one chunk spans [0, 43): chunk_end is 43, the length
\* of the scenario text.
C7_ScenarioEndsAt43 == ScenarioAdded => ScenarioYields(43)
\* the scenario document was added to a store that held a chunk already
C7_Witness == ScenarioAdded /\ ret.status = "ok" /\ Len(metadata_store) = 2

\* squared distance from the query to the vector at position p
QueryDistance(q, p) == L2Sqr(Encode(q).x, index.xb[p + 1])
\* position a comes before position b in the order of the index's answer
Nearer(q, a, b) ==
    \/ QueryDistance(q, a) < QueryDistance(q, b)
    \/ QueryDistance(q, a) = QueryDistance(q, b) /\ a < b
\* the k nearest positions
NearestK(q, k) ==
    {p \in 0..(Len(index.xb) - 1) :
        Cardinality({r \in 0..(Len(index.xb) - 1) : Nearer(q, r, p)}) < k}
\* those of them whose score 1 / (1 + distance) is at least the threshold
Retained(q, k, threshold) ==
    {p \in NearestK(q, k) :
        threshold.den >= threshold.num * (1 + QueryDistance(q, p))}

\* C8: search returns at most k results: exactly the chunks among the k
\* nearest whose score 1 / (1 + distance) is at least the threshold (a score
\* equal to the threshold included), by score descending, equal scores in
\* ascending-distance order, equal distances by position.
C8_SearchResults ==
    lastOp.op = "search" =>
        LET q == lastOp.args.query
            k == lastOp.args.k
            kept == Retained(q, k, lastOp.args.threshold)
        IN  /\ ret.status = "ok"
            /\ Len(ret.value) <= k
            /\ Len(ret.value) = Cardinality(kept)
            /\ \A p \in kept :
                  ret.value[1 + Cardinality({r \in kept : Nearer(q, r, p)})]
                    = [text |-> metadata_store[p + 1].text,
                       metadata |-> metadata_store[p + 1].metadata,
                       score |-> Rat(1, 1 + QueryDistance(q, p))]
            /\ \A i \in 1..(Len(ret.value) - 1) :
                  GE(ret.value[i].score, ret.value[i + 1].score)
\* a search that returned two different chunks of equal score, the score
\* being equal to the threshold
C8_Witness ==
    /\ lastOp.op = "search"
    /\ Len(ret.value) = 2
    /\ ret.value[1].text # ret.value[2].text
    /\ ret.value[1].score = ret.value[2].score
    /\ ret.value[1].score.num * lastOp.args.threshold.den
         = lastOp.args.threshold.num * ret.value[1].score.den
    /\ ret.value[1].text = metadata_store[1].text

\* C9: every score lies in (0, 1]; search with threshold 1.1 returns the
\* empty list, and search with threshold 0 returns one result for each of
\* the min(k, size) nearest positions.
C9_ThresholdExtremes ==
    lastOp.op = "search" =>
        /\ \A i \in 1..Len(ret.value) :
              /\ 0 < ret.value[i].score.num
              /\ ret.value[i].score.num <= ret.value[i].score.den
        /\ lastOp.args.threshold = Rat(11, 10) => ret = Returned(<<>>)
        /\ lastOp.args.threshold = Rat(0, 10) =>
              /\ Len(ret.value) = Cardinality(NearestK(lastOp.args.query, lastOp.args.k))
              /\ Len(ret.value) =
                    IF lastOp.args.k <= Len(metadata_store)
                    THEN lastOp.args.k ELSE Len(metadata_store)
              /\ \A p \in NearestK(lastOp.args.query, lastOp.args.k) :
                    \E i \in 1..Len(ret.value) :
                        /\ ret.value[i].text = metadata_store[p + 1].text
                        /\ ret.value[i].metadata = metadata_store[p + 1].metadata
\* a search with threshold 0 that returned k = 2 results, one of them with a
\* score below the default threshold
C9_Witness ==
    /\ lastOp.op = "search"
    /\ lastOp.args.threshold = Rat(0, 10)
    /\ Len(ret.value) = 2
    /\ ~GE(ret.value[2].score, Rat(5, 10))

\* C10: after clear the store has size 0, an empty index, and the dimension
\* it was built with; search on a store of size 0 returns the empty list and
\* does not raise.
C10_ClearAndEmptySearch ==
    /\ lastOp.op = "clear" =>
          /\ Len(metadata_store) = 0
          /\ index.xb = <<>>
          /\ index.d = dimension
    /\ dimension = EmbeddingDimension
    /\ (lastOp.op = "search" /\ Len(metadata_store) = 0) => ret = Returned(<<>>)
\* a search for more than one neighbour with threshold 0 on a store of size 0
C10_Witness ==
    /\ lastOp.op = "search"
    /\ Len(metadata_store) = 0
    /\ lastOp.args.k = 2
    /\ lastOp.args.threshold = Rat(0, 10)

\* position alignment: the index holds one vector per metadata record, and
\* the embedding of record i is the vector at index position i
Aligned(ix, ms) ==
    /\ Len(ix.xb) = Len(ms)
    /\ \A i \in 1..Len(ms) : ms[i].embedding.d = ix.d /\ ms[i].embedding.x = ix.xb[i]

\* C11: search never fails on a position that has no metadata record, also
\* when it runs while add_document or clear calls are in progress: such a
\* position is skipped and search returns the results of the other positions.
C11_SearchNeverFails == srch.pc = "done" => srch.ret.status = "ok"

\* C12: DocumentStore takes no lock: a thread that is about to call clear
\* can always start, also between the index append and the metadata appends
\* of another thread's add_document; and calls that did not overlap leave the
\* index and metadata_store aligned, so that the broken alignment of
\* C12_Witness comes from the interleaving.
C12_NoLockSerialAligned ==
    /\ \A t \in Mutators : calls[t].pc = "idle" => ENABLED BeginClear(t)
    /\ (\A t \in Mutators : ~Mid(t) /\ ~calls[t].overlapped)
          => Aligned(index, metadata_store)
\* both calls have finished, they ran concurrently, and the alignment is
\* broken: a different count, or a record whose embedding is not the vector
\* at its position
C12_Witness ==
    /\ \A t \in Mutators : calls[t].pc = "done" /\ calls[t].overlapped
    /\ \E t \in Mutators : calls[t].op = "add_document"
    /\ ~Aligned(index, metadata_store)

\* the two files of one directory describe the same positions: both absent,
\* or a complete metadata file with one record per vector of the index file,
\* in the same order
FilesAgree(f) ==
    IF ~f.index.exists THEN f.metadata.state = "absent"
    ELSE /\ f.metadata.state = "valid"
         /\ f.index.ntotal = Len(f.metadata.records)
         /\ \A i \in 1..Len(f.metadata.records) :
               /\ i <= Len(f.index.xb)
               /\ f.metadata.records[i].embedding.x = f.index.xb[i]

\* C13: whenever no save is executing (after a save that returned and after a
\* save that raised part-way alike), the index file and the metadata file of
\* every directory describe the same number of positions in the same order.
C13_FilesAgree == \A p \in Paths : FilesAgree(disk[p])

\* the step is a call of DocumentProcessor.add_document (directly or by the
\* upload endpoint) that reached the processor
IsProcessorAdd(op) ==
    /\ op.op \in {"upload", "processor.add_document"}
    /\ op.args.allowed

\* C14: a DocumentProcessor.add_document that returns status 'error' leaves
\* the in-memory index and metadata_store as they were before the call.
C14_FailedAddKeepsStore ==
    [][(IsProcessorAdd(lastOp') /\ lastOp'.args.result.status = "error")
          => (index' = index /\ metadata_store' = metadata_store)]_vars

\* C15: an upload whose extension is in the endpoint's allow-list is never
\* answered with get_document_loader's 'Unsupported file format' error.
C15_AllowedUploadHasLoader ==
    (lastOp.op = "upload" /\ lastOp.args.allowed)
        => lastOp.args.result.error # "Unsupported file format"

\* C16: a successful add_document that produces n chunks appends them, in
\* chunk order, at positions old_size .. old_size+n-1 of the index and of
\* metadata_store and leaves the existing positions as they were; and after
\* any sequence of add_document and clear calls the embedding of every
\* metadata record is the vector at its index position.
C16_AppendOnlyAligned ==
    /\ [][(lastOp'.op = "add_document" /\ ret'.status = "ok")
            => LET n == Len(ret'.value)
                   old == Len(metadata_store)
               IN  /\ Len(index.xb) = old
                   /\ Len(index'.xb) = old + n
                   /\ Len(metadata_store') = old + n
                   /\ SubSeq(index'.xb, 1, old) = index.xb
                   /\ SubSeq(metadata_store', 1, old) = metadata_store
                   /\ \A j \in 1..n :
                         /\ index'.xb[old + j] = ret'.value[j].embedding.x
                         /\ metadata_store'[old + j].text = ret'.value[j].text
                         /\ metadata_store'[old + j].metadata = ret'.value[j].metadata
                         /\ metadata_store'[old + j].metadata["chunk_id"] = PyInt(j - 1)
                         /\ metadata_store'[old + j].embedding.x
                                = ret'.value[j].embedding.x]_vars
    /\ [](Aligned(index, metadata_store))
\* an add_document has appended its chunk after the chunk of another document
C16_Witness ==
    /\ lastOp.op = "add_document"
    /\ ret.status = "ok"
    /\ Len(ret.value) = 1
    /\ Len(metadata_store) = 2
    /\ metadata_store[2].text = ret.value[1].text
    /\ metadata_store[1].text # metadata_store[2].text
    /\ index.xb[1] # index.xb[2]

\* the files DocumentStore.save writes for a store
Snapshot(ix, ms) == [index |-> write_index(ix), metadata |-> json_dump(ms).file]

\* C17: constructing the DocumentProcessor on a directory does not read the
\* files in it: the store starts empty and the files stay as they are; every
\* successful DocumentProcessor.add_document saves the store in memory to
\* persist_dir, so after the first one that follows the construction the
\* files hold the chunks of that call and nothing else.
C17_RestartDoesNotLoad ==
    /\ [][lastOp'.op = "restart"
            => /\ metadata_store' = <<>>
               /\ index'.xb = <<>>
               /\ persist_dir' = lastOp'.args.path
               /\ disk' = disk]_vars
    /\ [][(IsProcessorAdd(lastOp') /\ lastOp'.args.result.status = "success")
            => /\ disk'[persist_dir] = Snapshot(index', metadata_store')
               /\ FilesAgree(disk'[persist_dir])
               /\ lastOp'.args.first
                    => /\ Len(metadata_store')
                            = lastOp'.args.result.chunks_processed
                       /\ PersistedCount(disk', persist_dir)
                            = lastOp'.args.result.chunks_processed]_vars
\* the first add after a restart found two persisted chunks and left one
C17_Witness ==
    /\ IsProcessorAdd(lastOp)
    /\ lastOp.args.result.status = "success"
    /\ lastOp.args.first
    /\ lastOp.args.persisted_before = 2
    /\ lastOp.args.result.chunks_processed = 1
    /\ Len(metadata_store) = 1
    /\ PersistedCount(disk, persist_dir) = 1

\* the store in use is the one a successful load(P) returned
JustLoaded == lastOp.op = "load" /\ ret.status = "ok"
\* a step that saves without an argument: save(), or the save of
\* DocumentProcessor.add_document
SavesToPersistDir(op) == op.op = "save" \/ IsProcessorAdd(op)

\* C18: load(P) returns a store whose persist_dir is 'data/document_store'
\* and whose dimension is 384, whatever P and the loaded index; a save
\* without argument after it writes to the default directory only and leaves
\* the files under P unchanged, and clear() recreates an index of dimension
\* 384.
C18_LoadDefaults ==
    /\ [][(lastOp'.op = "load" /\ ret'.status = "ok")
            => (persist_dir' = "data/document_store" /\ dimension' = 384)]_vars
    /\ [][(JustLoaded /\ SavesToPersistDir(lastOp'))
            => /\ \A p \in Paths \ {"data/document_store"} : disk'[p] = disk[p]
               /\ disk'[lastOp.args.path] = disk[lastOp.args.path]]_vars
    /\ [][(JustLoaded /\ lastOp'.op = "clear")
            => (index'.d = 384 /\ index'.xb = <<>>)]_vars
\* C18 as the code has it: the files under P stay unchanged when P is not
\* the default directory (a save after load('data/document_store') writes to
\* P itself).
C18_LoadDefaultsOtherDir ==
    /\ [][(lastOp'.op = "load" /\ ret'.status = "ok")
            => (persist_dir' = "data/document_store" /\ dimension' = 384)]_vars
    /\ [][SavesToPersistDir(lastOp')
            => \A p \in Paths \ {persist_dir} : disk'[p] = disk[p]]_vars
    /\ [][(JustLoaded /\ SavesToPersistDir(lastOp'))
            => /\ \A p \in Paths \ {"data/document_store"} : disk'[p] = disk[p]
               /\ lastOp.args.path # "data/document_store"
                    => disk'[lastOp.args.path] = disk[lastOp.args.path]]_vars
    /\ [][(JustLoaded /\ lastOp'.op = "clear")
            => (index'.d = 384 /\ index'.xb = <<>>)]_vars
\* an index of another dimension was loaded from the other directory and
\* save() has written it to the default directory
C18_Witness ==
    /\ lastOp.op = "save"
    /\ lastOp.args.path = "data/document_store"
    /\ ret.status = "ok"
    /\ index.d # dimension
    /\ dimension = 384
    /\ disk["data/document_store"].index.d = index.d
    /\ disk[OtherDir] = ForeignFiles

====
